---- MODULE Spec2Model ----
(***************************************************************************)
(* The concierge server (package server), as four state machines over     *)
(* one set of variables:                                                   *)
(*   Spec        Auth (token authority + namespace registry), the unary    *)
(*               interceptor and the Login / Refresh / health handlers     *)
(*   SpecToken   generateToken and parseToken called directly, with        *)
(*               altered tokens and restarts of the process                *)
(*   SpecServer  the Server object: Register, RunServer with its two       *)
(*               loops, streaming calls, Close                             *)
(*   SpecServe   one wired Server under fair scheduling: calls in flight,  *)
(*               HTTP requests, shutdown                                   *)
(*                                                                         *)
(* Strings whose content the code inspects (namespace URIs, identifier     *)
(* values, token subjects) are sequences of one-character strings, so      *)
(* that concatenation with "|" and strings.Split are computed, not         *)
(* assumed.  The wall clock is counted in half seconds; time.Time.Unix()   *)
(* truncates it to whole seconds.                                          *)
(***************************************************************************)
EXTENDS Integers, Sequences, FiniteSets, TLC

VARIABLES
    phase,            \* "wiring" | "serving" | "aborted" (a panic during wiring)
    jwtPrivatekey,    \* Auth.jwtPrivatekey: the key pair the runtime holds
    authProviders,    \* Auth.authProviders: namespace uri -> AuthProvider
    serviceAccounts,  \* Auth.serviceAccounts: a Go map used as a set of uris
    now,              \* wall clock, in half seconds
    advances,         \* number of clock advances so far (bounded)
    held,             \* the token the client currently holds, or NoToken
    call,             \* the unary call in flight / last completed
    unit,             \* generateToken / parseToken called directly: inputs and results
    sv,               \* the Server object: sv.auth and sv.providers
    run,              \* the serve command's process: RunServer and what follows it
    closes            \* how often Close was called on each Provider

\* the variables of the Auth object and of the calls it serves
authVars == <<phase, jwtPrivatekey, authProviders, serviceAccounts, now, advances, held, call>>
\* the variables of the Server object and of the process that runs it
serverVars == <<sv, run, closes>>

vars == <<authVars, unit, serverVars>>

----------------------------------------------------------------------------
(* Bounds of the model *)

\* at most this many RegisterAuthProvider calls during wiring
MaxProviders == 2
\* at most this many advances of the clock in one behaviour
MaxAdvances == 2
\* at most this many restarts of the process in one behaviour
MaxRestarts == 1

----------------------------------------------------------------------------
(* Program constants *)

\* var defaultTokenDuration = 5 * time.Minute, in seconds
defaultTokenDuration == 300
\* var serviceAccountTokenDuration = 72 * time.Hour, in seconds
serviceAccountTokenDuration == 259200

\* identifiers.ConciergeServiceUser ("https://concierge.eldrix.com/Id/service-user")
ConciergeServiceUser == <<"S">>
\* identifiers.CymruUserID ("https://fhir.nhs.uk/Id/cymru-user-id")
CymruUserID == <<"U">>
\* the empty uri: Identifier.GetSystem() of a nil identifier, and a legal map key
EmptyURI == <<>>

Namespaces == {ConciergeServiceUser, CymruUserID, EmptyURI}
Values == {<<"a">>}

\* a Go map is nil (reads find nothing, a write panics) or made, with its keys
NilMap == [isNil |-> TRUE, keys |-> {}]
MadeMap(keys) == [isNil |-> FALSE, keys |-> keys]
NoToken == [kind |-> "none"]
NoUcd == [kind |-> "nil"]
NoKey == <<>>

\* key pairs: the one the runtime holds first (each later rsa.GenerateKey
\* yields another one, see NextKey), and a foreign one a forger may use
RuntimeKey == <<"k">>
ForeignKey == <<"f">>
\* rsa.GenerateKey(rand.Reader, 2048) once more: a key pair never held before
NextKey(key) == Append(key, "k")

\* time.Time.Unix(): whole seconds of a clock counted in half seconds
Unix(t) == t \div 2
\* a number of seconds as clock ticks
Seconds(s) == 2 * s

----------------------------------------------------------------------------
(* Strings *)

RECURSIVE SplitFrom(_, _, _)
\* strings.Split(s, sep) for a one-character separator; cur is the part being read
SplitFrom(s, sep, cur) ==
    IF s = <<>> THEN <<cur>>
    ELSE IF Head(s) = sep THEN <<cur>> \o SplitFrom(Tail(s), sep, <<>>)
    ELSE SplitFrom(Tail(s), sep, Append(cur, Head(s)))

Split(s, sep) == SplitFrom(s, sep, <<>>)

----------------------------------------------------------------------------
(* Errors and statuses *)

\* fmt.Errorf("invalid token") of addContextData
ErrNoToken == "invalid token"
\* ErrInvalidToken = errors.New("invalid authorization token")
ErrInvalidToken == "invalid authorization token"
\* errors of jwt.ParseWithClaims (github.com/dgrijalva/jwt-go v3.2.0)
ErrMalformed == "token contains an invalid number of segments"
ErrExpired == "token is expired"
ErrNotYetIssued == "Token used before issued"
ErrSignature == "crypto/rsa: verification error"
NoErr == "nil"

\* the parts a formatted message or log line is made of
Txt(s) == [text |-> s]
ErrPart(e) == [err |-> e]
UriPart(u) == [uri |-> u]
IdPart(id) == [system |-> id.system, value |-> id.value]
DurPart(d) == [duration |-> d]
TimePart(t) == [time |-> t]

\* status.Errorf(code, format, args...): the code and the formatted message
Status(code, msg) == [code |-> code, msg |-> msg]
OK == Status("OK", <<>>)

\* does the formatted message (or log line) carry the text of error e?
Mentions(msg, e) == \E i \in DOMAIN msg : msg[i] = ErrPart(e)

----------------------------------------------------------------------------
(* Token authority *)

\* the methods for which t.Method.(*jwt.SigningMethodRSA) succeeds
RSAMethods == {"RS256", "RS384", "RS512"}

\* the RSA signature of a token's header and claims under a key pair; only
\* the holder of the private key can compute it
Sign(key, alg, sub, iat, exp) ==
    [key |-> key, alg |-> alg, sub |-> sub, iat |-> iat, exp |-> exp]

\* token.SignedString(key): header, claims and the signature over both
SignedString(key, alg, sub, iat, exp) ==
    [kind |-> "jwt", alg |-> alg, sub |-> sub, iat |-> iat, exp |-> exp,
     sig  |-> Sign(key, alg, sub, iat, exp)]

\* Auth.generateToken: duration is a time.Duration in clock ticks, tExp and
\* tIat are the two readings of time.Now()
generateToken(id, duration, tExp, tIat) ==
    SignedString(jwtPrivatekey, "RS256", id.system \o <<"|">> \o id.value,
                 Unix(tIat), Unix(tExp + duration))

\* the validation of the claims with the expiry left unchecked
ClaimsValid_NoExpiry(tok, t) ==
    IF tok.iat # 0 /\ Unix(t) < tok.iat THEN ErrNotYetIssued ELSE NoErr

\* jwt.StandardClaims.Valid at time t: a zero exp or iat counts as absent;
\* the later check (iat) overwrites the error text of the earlier one (exp)
ClaimsValid(tok, t) ==
    IF tok.iat # 0 /\ Unix(t) < tok.iat THEN ErrNotYetIssued
    ELSE IF tok.exp # 0 /\ Unix(t) > tok.exp THEN ErrExpired
    ELSE NoErr

\* the parse with the signature left unverified (as jwt.Parser.ParseUnverified)
ParseWithClaims_Unverified(tok, t) ==
    IF tok.kind # "jwt" THEN ErrMalformed
    ELSE IF tok.alg \notin RSAMethods THEN ErrInvalidToken
    ELSE ClaimsValid(tok, t)

\* jwt.ParseWithClaims with the key function of parseToken: the error, or NoErr
ParseWithClaims(tok, t) ==
    IF tok.kind # "jwt" THEN ErrMalformed
    ELSE IF tok.alg \notin RSAMethods THEN ErrInvalidToken
    ELSE IF tok.sig # Sign(jwtPrivatekey, tok.alg, tok.sub, tok.iat, tok.exp) THEN ErrSignature
    ELSE ClaimsValid(tok, t)

\* Auth.parseToken(h, t): the "Bearer " prefix of the header value is cut off
\* (h.jwt is what follows it), the token verified and its subject split on "|"
parseToken(h, t) ==
    LET token == h.jwt
        err   == ParseWithClaims(token, t)
        ids   == IF err = NoErr THEN Split(token.sub, "|") ELSE <<>>
    IN  IF err = NoErr
        THEN IF Len(ids) # 2
             THEN [ucd |-> NoUcd, err |-> ErrInvalidToken, log |-> <<>>]
             ELSE [ucd |-> [kind |-> "ucd",
                            authenticatedUser |-> [system |-> ids[1], value |-> ids[2]],
                            token |-> token,
                            tokenExpiresAt |-> token.exp],
                   err |-> NoErr, log |-> <<>>]
        ELSE [ucd |-> NoUcd, err |-> err,
              log |-> << <<Txt("auth: invalid token: "), ErrPart(err)>> >>]

\* UserContextData.GetAuthenticatedUser().GetSystem(), guarding against nils
GetAuthenticatedUserSystem(ucd) ==
    IF ucd = NoUcd THEN EmptyURI ELSE ucd.authenticatedUser.system

----------------------------------------------------------------------------
(* Interceptor *)

LoginMethod == "/apiv1.Authenticator/Login"
RefreshMethod == "/apiv1.Authenticator/Refresh"
CheckMethod == "/grpc.health.v1.Health/Check"
OtherMethod == "/apiv1.Identifiers/GetIdentifier"
Methods == {LoginMethod, RefreshMethod, CheckMethod, OtherMethod}

\* the allow-list with the health check left out
noAuthEndpoints_LoginOnly == {LoginMethod}

noAuthEndpoints == {LoginMethod, CheckMethod}

\* what the call's incoming metadata holds
NoMetadata == [kind |-> "nometadata"]
NoHeader == [kind |-> "noheader"]
Authorization(bearer, tok) == [kind |-> "authorization", bearer |-> bearer, jwt |-> tok]

\* Auth.addContextData: the context data to attach, or the error
addContextData(md, t) ==
    IF md.kind = "nometadata" THEN [ucd |-> NoUcd, err |-> ErrNoToken, log |-> <<>>]
    ELSE IF md.kind = "noheader" THEN [ucd |-> NoUcd, err |-> ErrNoToken, log |-> <<>>]
    ELSE parseToken(md, t)

\* unaryAuthInterceptor with the rejection forgotten: a failed validation
\* falls through to the handler for every method
unaryAuthInterceptor_LetThrough(fullMethod, md, t) ==
    LET r == addContextData(md, t) IN
    [proceed |-> TRUE, ucd |-> r.ucd, status |-> OK, log |-> r.log]

\* Server.unaryAuthInterceptor: whether the handler is invoked, with which
\* context data, and the status returned when it is not
unaryAuthInterceptor(fullMethod, md, t) ==
    LET r == addContextData(md, t) IN
    IF r.err = NoErr
    THEN [proceed |-> TRUE, ucd |-> r.ucd, status |-> OK, log |-> r.log]
    ELSE IF fullMethod \in noAuthEndpoints
    THEN [proceed |-> TRUE, ucd |-> NoUcd, status |-> OK, log |-> r.log]
    ELSE [proceed |-> FALSE, ucd |-> NoUcd,
          status |-> Status("Unauthenticated", <<Txt("unauthenticated: "), ErrPart(r.err)>>),
          log |-> Append(r.log, <<Txt("server: unauthenticated call to "),
                                  Txt(fullMethod), ErrPart(r.err)>>)]

----------------------------------------------------------------------------
(* AuthProviders *)

ErrMismatchedHashAndPassword == "crypto/bcrypt: hashedPassword is not the hash of the given password"
ErrDatabase == "pq: connection refused"

\* what AuthProvider.Authenticate returns: (success, err)
ApResult(success, err) == [success |-> success, err |-> err]

\* singleAuthProvider.Authenticate: cred is whether the credential matches the hash
singleAuthProviderAuthenticate(cred) ==
    IF cred # "match" THEN ApResult(FALSE, ErrMismatchedHashAndPassword)
    ELSE ApResult(TRUE, NoErr)

\* dbAuthProvider.Authenticate: cred is what the users table holds for the
\* identifier and credential ("queryerror", "norow", "mismatch", "match")
dbAuthProviderAuthenticate(cred) ==
    IF cred = "queryerror" THEN ApResult(FALSE, ErrDatabase)
    ELSE IF cred = "mismatch" THEN ApResult(FALSE, ErrMismatchedHashAndPassword)
    ELSE IF cred = "match" THEN ApResult(TRUE, NoErr)
    ELSE ApResult(FALSE, NoErr)

Providers == {"single", "db"}
Credentials == {"queryerror", "norow", "mismatch", "match"}

\* ap.Authenticate(id, credential), dispatched on the registered provider
Authenticate(ap, cred) ==
    IF ap = "single" THEN singleAuthProviderAuthenticate(cred)
    ELSE dbAuthProviderAuthenticate(cred)

----------------------------------------------------------------------------
(* Handlers.  A handler's result: the status, the token of the response,  *)
(* the duration a minted token was given, whether a token was minted,     *)
(* whether an AuthProvider was called, and the log lines written          *)

Result(status, token, duration, minted, apCalled, log) ==
    [status |-> status, token |-> token, duration |-> duration, minted |-> minted,
     apCalled |-> apCalled, log |-> log]

\* the duration chosen in Login and in Refresh for an identifier's system
tokenDuration(system) ==
    IF system = ConciergeServiceUser THEN serviceAccountTokenDuration
    ELSE defaultTokenDuration

\* _, isService := auth.serviceAccounts[system] (a read of a nil map finds nothing)
isServiceAccount(system) == system \in serviceAccounts.keys

\* the trust-chain check of Login: a service namespace, or a context whose
\* authenticated user is of a service namespace
trustChain(system, ucd) ==
    isServiceAccount(system) \/ isServiceAccount(GetAuthenticatedUserSystem(ucd))

\* Login, lines 342-345: no AuthProvider for the namespace of the request
LoginUnsupported(r) ==
    Result(Status("Unauthenticated",
                  <<Txt("auth: unable to provide authentication for namespace uri "),
                    UriPart(r.user.system)>>),
           NoToken, 0, FALSE, FALSE,
           << <<Txt("auth: failed login attempt: unsupported namespace: "), IdPart(r.user)>> >>)

\* Login, lines 351-352: a login of a user without a service account
LoginDenied(r) ==
    Result(Status("Unauthenticated",
                  <<Txt("need service account login before logging in using normal user account")>>),
           NoToken, 0, FALSE, FALSE,
           << <<Txt("auth: login attempt for "), IdPart(r.user)>>,
              <<Txt("auth: attempt to login without service account")>> >>)

\* Login, lines 355-374: the provider judges the credential, a token is minted
LoginAuthenticate(r, tExp, tIat) ==
    LET system  == r.user.system
        attempt == <<Txt("auth: login attempt for "), IdPart(r.user)>>
        res     == Authenticate(authProviders[system], r.cred)
    IN  IF res.err # NoErr
        THEN Result(Status("Unauthenticated",
                           <<Txt("failed to authenticate: "), ErrPart(res.err)>>),
                    NoToken, 0, FALSE, TRUE,
                    <<attempt, <<Txt("auth: failed to authenticate: "), ErrPart(res.err)>> >>)
        ELSE IF ~res.success
        THEN Result(Status("Unauthenticated", <<Txt("invalid credentials")>>),
                    NoToken, 0, FALSE, TRUE,
                    <<attempt, <<Txt("auth: invalid credentials for "), IdPart(r.user)>> >>)
        ELSE Result(OK, generateToken(r.user, Seconds(tokenDuration(system)), tExp, tIat),
                    tokenDuration(system), TRUE, TRUE,
                    <<attempt, <<Txt("auth: generated authentication token for "),
                                 IdPart(r.user), DurPart(tokenDuration(system))>> >>)

\* Login with the provider lookup skipped: a namespace without provider is
\* taken as authenticated
Login_NoProviderLookup(ucd, r, tExp, tIat) ==
    IF ~trustChain(r.user.system, ucd)
    THEN LoginDenied(r)
    ELSE IF r.user.system \notin DOMAIN authProviders
    THEN Result(OK, generateToken(r.user, Seconds(tokenDuration(r.user.system)), tExp, tIat),
                tokenDuration(r.user.system), TRUE, FALSE, <<>>)
    ELSE LoginAuthenticate(r, tExp, tIat)

\* Auth.Login(ctx, r): ucd is the context data, r the request (user and the
\* credential as the provider will judge it), tExp/tIat the clock readings
Login(ucd, r, tExp, tIat) ==
    IF jwtPrivatekey = NoKey
    THEN Result(Status("Internal", <<Txt("no private key specified for signing jwt token")>>),
                NoToken, 0, FALSE, FALSE, <<>>)
    ELSE IF r.user.system \notin DOMAIN authProviders
    THEN LoginUnsupported(r)
    ELSE IF ~trustChain(r.user.system, ucd)
    THEN LoginDenied(r)
    ELSE LoginAuthenticate(r, tExp, tIat)

\* a nil dereference in a handler: the goroutine panics, no response is built
Panic == Result(Status("panic", <<Txt("nil pointer dereference")>>), NoToken, 0, FALSE, FALSE, <<>>)

\* the minting of Refresh with the subject taken to be of the service
\* namespace instead of the namespace of the context
RefreshMint_ServiceSubject(ucd, duration, tExp, tIat) ==
    Result(OK, generateToken([system |-> ConciergeServiceUser,
                              value |-> ucd.authenticatedUser.value],
                             Seconds(duration), tExp, tIat),
           duration, TRUE, FALSE,
           << <<Txt("auth: generated refreshed authentication token for "),
                IdPart(ucd.authenticatedUser), DurPart(duration)>> >>)

\* lines 387-396 of Refresh: a new token for the identity of the context
RefreshMint(ucd, duration, tExp, tIat) ==
    Result(OK, generateToken(ucd.authenticatedUser, Seconds(duration), tExp, tIat),
           duration, TRUE, FALSE,
           << <<Txt("auth: generated refreshed authentication token for "),
                IdPart(ucd.authenticatedUser), DurPart(duration)>> >>)

\* lines 384-385 of Refresh: the token of the context is sent back
RefreshReissue(ucd) ==
    Result(OK, ucd.token, 0, FALSE, FALSE,
           << <<Txt("auth: re-issuing still active token for "),
                IdPart(ucd.authenticatedUser), TimePart(ucd.tokenExpiresAt)>> >>)

\* Refresh without the remaining-time check: every call re-signs
Refresh_AlwaysMint(ucd, tNow, tExp, tIat) ==
    IF ucd = NoUcd THEN Panic
    ELSE RefreshMint(ucd, tokenDuration(ucd.authenticatedUser.system), tExp, tIat)

\* Refresh without the service-account branch: every new token gets 5 minutes
Refresh_DefaultDuration(ucd, tNow, tExp, tIat) ==
    IF ucd = NoUcd THEN Panic
    ELSE IF Seconds(ucd.tokenExpiresAt) - tNow > Seconds(300) THEN RefreshReissue(ucd)
    ELSE RefreshMint(ucd, defaultTokenDuration, tExp, tIat)

\* Refresh with a threshold of one minute instead of five
Refresh_ShortWindow(ucd, tNow, tExp, tIat) ==
    IF ucd = NoUcd THEN Panic
    ELSE IF Seconds(ucd.tokenExpiresAt) - tNow > Seconds(60) THEN RefreshReissue(ucd)
    ELSE RefreshMint(ucd, tokenDuration(ucd.authenticatedUser.system), tExp, tIat)

\* Auth.Refresh(ctx, r): tNow is the clock reading of the remaining-time check
Refresh(ucd, tNow, tExp, tIat) ==
    IF ucd = NoUcd
    THEN Panic      \* remaining is hugely negative, then ucd.authenticatedUser faults
    ELSE IF Seconds(ucd.tokenExpiresAt) - tNow > Seconds(300)
    THEN RefreshReissue(ucd)
    ELSE RefreshMint(ucd, tokenDuration(ucd.authenticatedUser.system), tExp, tIat)

\* Server.Check: reports SERVING unconditionally
Check == Result(OK, NoToken, 0, FALSE, FALSE,
                << <<Txt("server: health check received: "), Txt("SERVING")>> >>)

\* the handler of some other registered operation
OtherHandler == Result(OK, NoToken, 0, FALSE, FALSE, <<>>)

----------------------------------------------------------------------------
(* State machine *)

NoReq == [user |-> [system |-> EmptyURI, value |-> <<>>], cred |-> "none"]
NoResult == Result(OK, NoToken, 0, FALSE, FALSE, <<>>)

\* no call yet
Idle ==
    [pc |-> "idle", method |-> "", md |-> NoMetadata, at |-> 0, ucd |-> NoUcd,
     ilog |-> <<>>, handled |-> FALSE, req |-> NoReq, tHandled |-> 0, result |-> NoResult]

\* what a client can send as metadata: nothing, no authorization header, a
\* string that is no token, the token it holds (with or without the "Bearer "
\* prefix), or that token re-signed under a foreign key or another algorithm
Garbage == [kind |-> "garbage"]
Metadata ==
    {NoMetadata, NoHeader, Authorization(TRUE, Garbage)}
    \cup (IF held = NoToken THEN {}
          ELSE {Authorization(TRUE, held), Authorization(FALSE, held),
                Authorization(TRUE, SignedString(ForeignKey, held.alg, held.sub, held.iat, held.exp)),
                Authorization(TRUE, [held EXCEPT !.alg = "HS256"])})

\* the delay between two clock readings inside one handler, in ticks
Delays == IF advances < MaxAdvances THEN {0, 1} ELSE {0}
\* how far the clock may jump between steps: half a second, 4m59s, 72h less 5m
AdvanceSteps == {1, Seconds(299), Seconds(serviceAccountTokenDuration - defaultTokenDuration)}

\* the wall clock at the start: an odd tick, half a second before a new second
StartTime == Seconds(1000) + 1

\* generateToken and parseToken are not called directly
NoUnit == [pc |-> "none"]

\* server.New(opts): no authenticator and no provider registered (a nil map);
\* of the options, the port of the REST gateway
New(restPort) == [auth |-> FALSE, providers |-> <<>>, RESTPort |-> restPort]
NewServer == New(0)
\* no HTTP request has been made
NoRequest == [grpcWeb |-> FALSE, handlers |-> <<>>]
\* no streaming call has been made
NoStream == [method |-> "", invoked |-> FALSE, status |-> OK]
\* RunServer has not been called, nor Close
NotRunning ==
    [pc |-> "wiring", grpc |-> "idle", http |-> "idle", signalled |-> FALSE,
     gerr |-> NoErr, trigger |-> "none", failure |-> NoErr, ret |-> NoErr,
     closed |-> FALSE, order |-> <<>>, failing |-> {}, closeRet |-> NoErr,
     stream |-> NoStream,
     proxyTried |-> {}, proxyFailed |-> {}, httpListening |-> FALSE,
     inflight |-> FALSE, accepted |-> FALSE, request |-> NoRequest]
\* the Provider instances that can be registered, none of them closed yet
ProviderInstances == {"p1", "p2", "p3"}
NoCloses == [p \in ProviderInstances |-> 0]

\* NewAuthenticationServer (serviceAccounts left nil) or
\* NewAuthenticationServerWithTemporaryKey (serviceAccounts made)
Init ==
    /\ phase = "wiring"
    /\ jwtPrivatekey = RuntimeKey
    /\ authProviders = <<>>
    /\ serviceAccounts \in {NilMap, MadeMap({})}
    /\ now = StartTime
    /\ advances = 0
    /\ held = NoToken
    /\ call = Idle
    /\ unit = NoUnit
    /\ sv = NewServer
    /\ run = NotRunning
    /\ closes = NoCloses

\* the provider a registration gets: as in createServers (--auth-secret) a
\* singleAuthProvider for a service namespace; a dbAuthProvider, which can
\* also find no user or fail, for a namespace of users
ProviderFor(service) == IF service THEN "single" ELSE "db"

\* RegisterAuthProvider without the check for an earlier registration: the
\* second registration takes the place of the first
RegisterAuthProvider_Overwrite(uri, ap, service) ==
    /\ phase = "wiring"
    /\ Cardinality(DOMAIN authProviders) < MaxProviders \/ uri \in DOMAIN authProviders
    /\ authProviders' = [u \in DOMAIN authProviders \cup {uri} |->
                            IF u = uri THEN ap ELSE authProviders[u]]
    /\ IF ~service
       THEN UNCHANGED <<phase, serviceAccounts>>
       ELSE IF serviceAccounts.isNil
       THEN /\ phase' = "aborted"
            /\ UNCHANGED serviceAccounts
       ELSE /\ serviceAccounts' = MadeMap(serviceAccounts.keys \cup {uri})
            /\ UNCHANGED phase
    /\ UNCHANGED <<jwtPrivatekey, now, advances, held, call>>
    /\ UNCHANGED <<unit, serverVars>>

\* Auth.RegisterAuthProvider(uri, name, ap, service)
RegisterAuthProvider(uri, ap, service) ==
    /\ phase = "wiring"
    /\ Cardinality(DOMAIN authProviders) < MaxProviders \/ uri \in DOMAIN authProviders
    /\ IF uri \in DOMAIN authProviders
       THEN /\ phase' = "aborted"           \* panic: already registered
            /\ UNCHANGED <<authProviders, serviceAccounts>>
       ELSE /\ authProviders' = [u \in DOMAIN authProviders \cup {uri} |->
                                    IF u = uri THEN ap ELSE authProviders[u]]
            /\ IF ~service
               THEN UNCHANGED <<phase, serviceAccounts>>
               ELSE IF serviceAccounts.isNil
               THEN /\ phase' = "aborted"   \* panic: assignment to entry in nil map
                    /\ UNCHANGED serviceAccounts
               ELSE /\ serviceAccounts' = MadeMap(serviceAccounts.keys \cup {uri})
                    /\ UNCHANGED phase
    /\ UNCHANGED <<jwtPrivatekey, now, advances, held, call>>
    /\ UNCHANGED <<unit, serverVars>>

\* Server.RunServer: the server starts to take calls
Serve ==
    /\ phase = "wiring"
    /\ phase' = "serving"
    /\ UNCHANGED <<jwtPrivatekey, authProviders, serviceAccounts, now, advances, held, call>>
    /\ UNCHANGED <<unit, serverVars>>

\* time passes, before a call or between its interception and its handler
Advance(d) ==
    /\ phase = "serving"
    /\ call.pc \in {"idle", "handler"}
    /\ advances < MaxAdvances
    /\ now' = now + d
    /\ advances' = advances + 1
    /\ UNCHANGED <<phase, jwtPrivatekey, authProviders, serviceAccounts, held, call>>
    /\ UNCHANGED <<unit, serverVars>>

\* a unary call arrives and passes through Server.unaryAuthInterceptor
Intercept(fullMethod, md) ==
    /\ phase = "serving"
    /\ call.pc = "idle"
    /\ LET d == unaryAuthInterceptor(fullMethod, md, now) IN
       call' = [pc |-> IF d.proceed THEN "handler" ELSE "done",
                method |-> fullMethod, md |-> md, at |-> now, ucd |-> d.ucd,
                ilog |-> d.log, handled |-> FALSE, req |-> NoReq, tHandled |-> 0,
                result |-> Result(d.status, NoToken, 0, FALSE, FALSE, <<>>)]
    /\ UNCHANGED <<phase, jwtPrivatekey, authProviders, serviceAccounts, now, advances, held>>
    /\ UNCHANGED <<unit, serverVars>>

\* the handler with a cache of seen namespaces: a minted token leaves the
\* namespace of the request in the service-account set
Handled_Caching(r, res, delay) ==
    /\ delay # 0 => res.minted
    /\ call' = [call EXCEPT !.pc = "done", !.handled = TRUE, !.req = r,
                            !.tHandled = now, !.result = res]
    /\ now' = now + delay
    /\ advances' = advances + delay
    /\ serviceAccounts' = IF res.minted /\ ~serviceAccounts.isNil
                          THEN MadeMap(serviceAccounts.keys \cup {r.user.system})
                          ELSE serviceAccounts
    /\ UNCHANGED <<phase, jwtPrivatekey, authProviders, held>>
    /\ UNCHANGED <<unit, serverVars>>

\* the handler of the intercepted call has run with result res; delay is the
\* time between the two clock readings of generateToken, when it was called
Handled(r, res, delay) ==
    /\ delay # 0 => res.minted
    /\ call' = [call EXCEPT !.pc = "done", !.handled = TRUE, !.req = r,
                            !.tHandled = now, !.result = res]
    /\ now' = now + delay
    /\ advances' = advances + delay
    /\ UNCHANGED <<phase, jwtPrivatekey, authProviders, serviceAccounts, held>>
    /\ UNCHANGED <<unit, serverVars>>

\* the client receives the response and keeps the token it is given, if any
Return ==
    /\ phase = "serving"
    /\ call.pc = "done"
    /\ held' = IF call.result.token # NoToken THEN call.result.token ELSE held
    /\ call' = Idle
    /\ UNCHANGED <<phase, jwtPrivatekey, authProviders, serviceAccounts, now, advances>>
    /\ UNCHANGED <<unit, serverVars>>

HandleLogin(user, cred, delay) ==
    /\ call.pc = "handler" /\ call.method = LoginMethod
    /\ LET r == [user |-> user, cred |-> cred] IN
       Handled(r, Login(call.ucd, r, now, now + delay), delay)

HandleRefresh(delay) ==
    /\ call.pc = "handler" /\ call.method = RefreshMethod
    /\ Handled(NoReq, Refresh(call.ucd, now, now, now + delay), delay)

HandleCheck ==
    /\ call.pc = "handler" /\ call.method = CheckMethod
    /\ Handled(NoReq, Check, 0)

HandleOther ==
    /\ call.pc = "handler" /\ call.method = OtherMethod
    /\ Handled(NoReq, OtherHandler, 0)

\* the handler the gRPC server dispatches a method to, and what it returns
Handler(fullMethod, ucd, r, tNow, tIat) ==
    IF fullMethod = LoginMethod THEN Login(ucd, r, tNow, tIat)
    ELSE IF fullMethod = RefreshMethod THEN Refresh(ucd, tNow, tNow, tIat)
    ELSE IF fullMethod = CheckMethod THEN Check
    ELSE OtherHandler

\* the metadata of that other call: none, or the token the client holds
ConcurrentMetadata ==
    {NoMetadata} \cup (IF held = NoToken THEN {} ELSE {Authorization(TRUE, held)})

\* while the call waits for its handler, another call of the client is served
\* in a goroutine of its own, from interceptor to response, and the client
\* keeps the token it is given
Concurrent(fullMethod, md, r) ==
    /\ phase = "serving"
    /\ call.pc = "handler"
    /\ LET d   == unaryAuthInterceptor(fullMethod, md, now)
           res == IF d.proceed THEN Handler(fullMethod, d.ucd, r, now, now)
                  ELSE Result(d.status, NoToken, 0, FALSE, FALSE, <<>>)
       IN  /\ res.token \notin {NoToken, held}
           /\ held' = res.token
    /\ UNCHANGED <<phase, jwtPrivatekey, authProviders, serviceAccounts, now, advances, call>>
    /\ UNCHANGED <<unit, serverVars>>

Next ==
    \/ \E uri \in Namespaces, service \in BOOLEAN :
          RegisterAuthProvider(uri, ProviderFor(service), service)
    \/ Serve
    \/ \E d \in AdvanceSteps : Advance(d)
    \/ \E m \in Methods, md \in Metadata : Intercept(m, md)
    \/ \E ns \in Namespaces, v \in Values, cred \in Credentials, delay \in Delays :
          HandleLogin([system |-> ns, value |-> v], cred, delay)
    \/ \E delay \in Delays : HandleRefresh(delay)
    \/ HandleCheck
    \/ HandleOther
    \/ \E m \in {LoginMethod, RefreshMethod}, md \in ConcurrentMetadata,
          ns \in Namespaces, v \in Values :
          Concurrent(m, md, [user |-> [system |-> ns, value |-> v], cred |-> "match"])
    \/ Return

Spec == Init /\ [][Next]_vars

----------------------------------------------------------------------------
(* The token authority called directly, as the package's tests do: a token *)
(* is generated for an identity and a duration, then possibly altered, the *)
(* process possibly restarted and the clock advanced, and the token parsed *)

\* identifier values: plain, empty, and one that holds the separator
UnitValues == {<<"a">>, <<>>, <<"a", "|", "b">>}
\* durations in ticks: the two of Login, none, half a second and a second
\* back, and the one that reaches back from StartTime to the Unix epoch
Durations ==
    {Seconds(defaultTokenDuration), Seconds(serviceAccountTokenDuration),
     0, -1, -Seconds(1), 1 - StartTime}

\* what altering a token, or signing its claims elsewhere, can produce
Altered(tok) ==
    IF tok.kind # "jwt" THEN {}
    ELSE {[tok EXCEPT !.sub = tok.sub \o <<"x">>],
          [tok EXCEPT !.exp = tok.exp + 1],
          [tok EXCEPT !.alg = "RS384"],
          [tok EXCEPT !.alg = "none"],
          SignedString(ForeignKey, tok.alg, tok.sub, tok.iat, tok.exp)}

\* the Auth object is constructed, with a key read from a file or with a
\* temporary key; nothing has been generated yet
InitToken ==
    /\ phase = "wiring"
    /\ jwtPrivatekey = RuntimeKey
    /\ authProviders = <<>>
    /\ \E temporaryKey \in BOOLEAN :
         /\ serviceAccounts = IF temporaryKey THEN MadeMap({}) ELSE NilMap
         /\ unit = [pc |-> "start", temporaryKey |-> temporaryKey,
                    id |-> [system |-> EmptyURI, value |-> <<>>], duration |-> 0,
                    tExp |-> 0, tIat |-> 0, issuedKey |-> NoKey, altered |-> FALSE,
                    restarts |-> 0, tParse |-> 0,
                    out |-> [ucd |-> NoUcd, err |-> NoErr, log |-> <<>>],
                    refresh |-> NoResult]
    /\ now = StartTime
    /\ advances = 0
    /\ held = NoToken
    /\ call = Idle
    /\ sv = NewServer
    /\ run = NotRunning
    /\ closes = NoCloses

\* auth.generateToken(id, duration); delay passes between its two clock readings
UnitGenerate(id, duration, delay) ==
    /\ unit.pc = "start"
    /\ held' = generateToken(id, duration, now, now + delay)
    /\ unit' = [unit EXCEPT !.pc = "generated", !.id = id, !.duration = duration,
                            !.tExp = now, !.tIat = now + delay,
                            !.issuedKey = jwtPrivatekey]
    /\ now' = now + delay
    /\ advances' = advances + delay
    /\ UNCHANGED <<phase, jwtPrivatekey, authProviders, serviceAccounts, call, serverVars>>

\* the generated token is altered, or its claims are signed under another key
UnitAlter(tok) ==
    /\ unit.pc = "generated" /\ ~unit.altered
    /\ held' = tok
    /\ unit' = [unit EXCEPT !.altered = TRUE]
    /\ UNCHANGED <<phase, jwtPrivatekey, authProviders, serviceAccounts, now, advances,
                   call, serverVars>>

\* the process is restarted: the constructor runs again, the key file still
\* holds the same key, a temporary key is generated anew
UnitRestart ==
    /\ unit.pc = "generated"
    /\ unit.restarts < MaxRestarts
    /\ jwtPrivatekey' = IF unit.temporaryKey THEN NextKey(jwtPrivatekey) ELSE jwtPrivatekey
    /\ unit' = [unit EXCEPT !.restarts = @ + 1]
    /\ UNCHANGED <<phase, authProviders, serviceAccounts, now, advances, held,
                   call, serverVars>>

\* time passes between generating and parsing
UnitAdvance(d) ==
    /\ unit.pc = "generated"
    /\ advances < MaxAdvances
    /\ now' = now + d
    /\ advances' = advances + 1
    /\ UNCHANGED <<phase, jwtPrivatekey, authProviders, serviceAccounts, held, call,
                   unit, serverVars>>

\* auth.parseToken(token)
UnitParse ==
    /\ unit.pc = "generated"
    /\ unit' = [unit EXCEPT !.pc = "parsed", !.tParse = now,
                            !.out = parseToken(Authorization(TRUE, held), now)]
    /\ UNCHANGED <<authVars, serverVars>>

\* auth.Refresh(ctx, r) called with a context that holds what parseToken
\* returned, or no context data when nothing was parsed or parsing failed
UnitRefresh ==
    /\ unit.pc \in {"start", "parsed"}
    /\ unit' = [unit EXCEPT !.pc = "refreshed",
                            !.refresh = Refresh(unit.out.ucd, now, now, now)]
    /\ UNCHANGED <<authVars, serverVars>>

NextToken ==
    \/ \E ns \in Namespaces, v \in UnitValues, duration \in Durations, delay \in Delays :
          UnitGenerate([system |-> ns, value |-> v], duration, delay)
    \/ \E tok \in Altered(held) : UnitAlter(tok)
    \/ UnitRestart
    \/ \E d \in AdvanceSteps : UnitAdvance(d)
    \/ UnitParse
    \/ UnitRefresh

SpecToken == InitToken /\ [][NextToken]_vars

----------------------------------------------------------------------------
(* The Server object: providers are registered, RunServer runs the gRPC    *)
(* loop and the HTTP loop in an errgroup until a signal arrives or a loop  *)
(* fails, streaming calls arrive while it serves, and Close closes the     *)
(* providers                                                               *)

\* the names createServers registers providers under
ProviderNames == {"identifier", "nadex", "auth"}

WatchMethod == "/grpc.health.v1.Health/Watch"

\* errors of the two loops and of the listener
ErrListen == "failed to initialize TCP listen"
ErrGrpcServe == "grpc: Serve failed"
ErrHttpServe == "http: ListenAndServe failed"
\* the error of credentials.NewServerTLSFromFile, and of ListenAndServe when
\* the port of the gateway cannot be bound
ErrCreds == "tls: failed to load certificate or key"
ErrHttpListen == "listen tcp: address already in use"
\* the ports of the REST gateway the options may name
RestPorts == {0, 8080}
\* http.ErrServerClosed: what ListenAndServe returns once Shutdown was called
ErrServerClosed == "http: Server closed"
\* the error Close of a failing Provider instance returns, named after it
CloseErr(p) == p

\* all orders in which a range over a map with these keys can visit them
RECURSIVE Orders(_)
Orders(keys) ==
    IF keys = {} THEN {<<>>}
    ELSE UNION {{<<k>> \o rest : rest \in Orders(keys \ {k})} : k \in keys}

InitServer ==
    /\ phase = "wiring"
    /\ jwtPrivatekey = RuntimeKey
    /\ authProviders = <<>>
    /\ serviceAccounts = MadeMap({})
    /\ now = StartTime
    /\ advances = 0
    /\ held = NoToken
    /\ call = Idle
    /\ unit = NoUnit
    /\ \E restPort \in RestPorts : sv = New(restPort)
    /\ run = NotRunning
    /\ closes = NoCloses

\* Server.RegisterAuthenticator(auth)
RegisterAuthenticator ==
    /\ run.pc = "wiring" /\ ~run.closed
    /\ sv' = [sv EXCEPT !.auth = TRUE]
    /\ UNCHANGED <<authVars, unit, run, closes>>

\* Server.Register(name, p): sv.providers[name] = p
Register(name, p) ==
    /\ run.pc = "wiring" /\ ~run.closed
    /\ sv' = [sv EXCEPT !.providers =
                 [n \in DOMAIN sv.providers \cup {name} |->
                     IF n = name THEN p ELSE sv.providers[n]]]
    /\ UNCHANGED <<authVars, unit, run, closes>>

\* the names of the providers whose RegisterHTTPProxy fails
ProxyFailed(proxyFailing) == {n \in DOMAIN sv.providers : sv.providers[n] \in proxyFailing}

\* RunServer giving up at the first failed RegisterHTTPProxy
RunServer_AbortOnProxyError(listenOk, credsOk, proxyFailing) ==
    /\ run.pc = "wiring" /\ ~run.closed
    /\ run' = IF ~listenOk THEN [run EXCEPT !.pc = "returned", !.ret = ErrListen]
              ELSE IF ~credsOk THEN [run EXCEPT !.pc = "returned", !.ret = ErrCreds]
              ELSE IF ProxyFailed(proxyFailing) # {}
              THEN [run EXCEPT !.pc = "returned", !.ret = "failed to register reverse http proxy",
                               !.proxyTried = ProxyFailed(proxyFailing),
                               !.proxyFailed = ProxyFailed(proxyFailing)]
              ELSE [run EXCEPT !.pc = "serving", !.grpc = "running", !.http = "running",
                               !.proxyTried = DOMAIN sv.providers]
    /\ UNCHANGED <<authVars, unit, sv, closes>>

\* Server.RunServer up to the start of the two loops: a failed net.Listen or
\* failed loading of the TLS files makes it return at once; RegisterHTTPProxy
\* is called for every provider, a failure is logged; both loops are started,
\* whatever the port of the gateway
RunServer(listenOk, credsOk, proxyFailing) ==
    /\ run.pc = "wiring" /\ ~run.closed
    /\ run' = IF ~listenOk THEN [run EXCEPT !.pc = "returned", !.ret = ErrListen]
              ELSE IF ~credsOk THEN [run EXCEPT !.pc = "returned", !.ret = ErrCreds]
              ELSE [run EXCEPT !.pc = "serving", !.grpc = "running", !.http = "running",
                               !.proxyTried = DOMAIN sv.providers,
                               !.proxyFailed = ProxyFailed(proxyFailing)]
    /\ UNCHANGED <<authVars, unit, sv, closes>>

\* errgroup: a goroutine returns err; the first non-nil error is kept (and
\* cancels the group's context)
GroupErr(err) == IF run.gerr = NoErr THEN err ELSE run.gerr

\* grpcServer.Serve(lis) fails and returns its error
GrpcServeFails ==
    /\ run.pc \in {"serving", "shutdown", "stopping"} /\ run.grpc = "running"
    /\ run' = [run EXCEPT !.grpc = "returned", !.gerr = GroupErr(ErrGrpcServe),
                          !.failure = IF @ = NoErr THEN ErrGrpcServe ELSE @]
    /\ UNCHANGED <<authVars, unit, sv, closes>>

\* the error ListenAndServe fails with: the bind error before it listens
HttpErr == IF run.httpListening THEN ErrHttpServe ELSE ErrHttpListen

\* httpServer.ListenAndServe fails and returns its error
HttpServeFails ==
    /\ run.pc \in {"serving", "shutdown"} /\ run.http = "running"
    /\ run' = [run EXCEPT !.http = "returned", !.gerr = GroupErr(HttpErr),
                          !.failure = IF @ = NoErr THEN HttpErr ELSE @]
    /\ UNCHANGED <<authVars, unit, sv, closes>>

\* httpServer.ListenAndServe has bound the port of the gateway and listens
HttpListens ==
    /\ run.pc = "serving" /\ run.http = "running" /\ ~run.httpListening
    /\ run' = [run EXCEPT !.httpListening = TRUE]
    /\ UNCHANGED <<authVars, unit, sv, closes>>

\* the gRPC loop accepts a unary call, whose handler starts to run
RpcBegins ==
    /\ run.pc \in {"serving", "shutdown", "stopping"} /\ run.grpc = "running"
    /\ ~run.inflight
    /\ run' = [run EXCEPT !.inflight = TRUE, !.accepted = TRUE]
    /\ UNCHANGED <<authVars, unit, sv, closes>>

\* the handler of the call in flight returns
RpcCompletes ==
    /\ run.inflight
    /\ run' = [run EXCEPT !.inflight = FALSE]
    /\ UNCHANGED <<authVars, unit, sv, closes>>

\* the handler function RunServer gives the HTTP server: the handlers that
\* serve a request, in order
restHandler(isGrpcWebRequest) ==
    [grpcWeb |-> isGrpcWebRequest,
     handlers |-> IF isGrpcWebRequest THEN <<"wrappedGrpc", "mux">> ELSE <<"mux">>]

\* an HTTP request arrives on the port of the gateway
HttpRequest(isGrpcWebRequest) ==
    /\ run.pc = "serving" /\ run.http = "running" /\ run.httpListening
    /\ run.request = NoRequest
    /\ run' = [run EXCEPT !.request = restHandler(isGrpcWebRequest)]
    /\ UNCHANGED <<authVars, unit, sv, closes>>

\* the process receives an interrupt or termination signal
Signal ==
    /\ run.pc = "serving" /\ ~run.signalled
    /\ run' = [run EXCEPT !.signalled = TRUE]
    /\ UNCHANGED <<authVars, unit, sv, closes>>

\* the select of RunServer takes the signal, or the group's cancelled context
Select(trigger) ==
    /\ run.pc = "serving"
    /\ \/ trigger = "signal" /\ run.signalled
       \/ trigger = "ctx" /\ run.gerr # NoErr
    /\ run' = [run EXCEPT !.pc = "shutdown", !.trigger = trigger]
    /\ UNCHANGED <<authVars, unit, sv, closes>>

\* httpServer.Shutdown: a ListenAndServe still running returns ErrServerClosed
HttpShutdown ==
    /\ run.pc = "shutdown"
    /\ run' = IF run.http = "running"
              THEN [run EXCEPT !.pc = "stopping", !.http = "returned",
                               !.gerr = GroupErr(ErrServerClosed)]
              ELSE [run EXCEPT !.pc = "stopping"]
    /\ UNCHANGED <<authVars, unit, sv, closes>>

\* grpcServer.GracefulStop: it blocks until no call is in flight; a Serve
\* still running returns nil
GracefulStop ==
    /\ run.pc = "stopping"
    /\ ~run.inflight
    /\ run' = [run EXCEPT !.pc = "waiting", !.grpc = "returned"]
    /\ UNCHANGED <<authVars, unit, sv, closes>>

\* return g.Wait(): the first error a loop returned, or nil
Wait ==
    /\ run.pc = "waiting"
    /\ run' = [run EXCEPT !.pc = "returned", !.ret = run.gerr]
    /\ UNCHANGED <<authVars, unit, sv, closes>>

\* Server.streamAuthInterceptor: the handler is not invoked; the plain error
\* reaches the caller as gRPC makes a status of it, with code Unknown
streamAuthInterceptor(fullMethod) ==
    [method |-> fullMethod, invoked |-> FALSE,
     status |-> Status("Unknown", <<Txt("not implemented")>>)]

\* Server.Watch: the streaming health check
Watch ==
    [method |-> WatchMethod, invoked |-> TRUE,
     status |-> Status("Unimplemented", <<Txt("grpc health watch operation not implemented")>>)]

\* a streaming call arrives at the gRPC loop: through the stream interceptor
\* when an authenticator is registered, straight to the handler otherwise
StreamCall(fullMethod) ==
    /\ run.pc = "serving" /\ run.grpc = "running"
    /\ run.stream = NoStream
    /\ run' = [run EXCEPT !.stream = IF sv.auth THEN streamAuthInterceptor(fullMethod)
                                     ELSE Watch]
    /\ UNCHANGED <<authVars, unit, sv, closes>>

RECURSIVE CloseLoop(_, _, _)
\* the loop of Server.Close over the providers in the order the range visits
\* them: the instances closed so far (as a sequence) and the value returned
CloseLoop(order, failing, done) ==
    IF order = <<>> THEN [done |-> done, err |-> NoErr]
    ELSE LET p == sv.providers[Head(order)] IN
         IF p \in failing
         THEN [done |-> Append(done, p), err |-> CloseErr(p)]
         ELSE CloseLoop(Tail(order), failing, Append(done, p))

\* how often instance p occurs in a sequence of instances
Count(seq, p) == Cardinality({i \in DOMAIN seq : seq[i] = p})

\* serveCmd.Run: RunServer returned an error, log.Fatal ends the process
Fatal ==
    /\ run.pc = "returned" /\ run.ret # NoErr
    /\ run' = [run EXCEPT !.pc = "exited"]
    /\ UNCHANGED <<authVars, unit, sv, closes>>

\* Server.Close(), called before the server ever ran or, by serveCmd.Run, once
\* RunServer returned nil; failing are the instances whose Close returns an error
Close(order, failing) ==
    /\ run.pc = "wiring" \/ (run.pc = "returned" /\ run.ret = NoErr)
    /\ ~run.closed
    /\ LET r == CloseLoop(order, failing, <<>>) IN
       /\ closes' = [p \in ProviderInstances |-> closes[p] + Count(r.done, p)]
       /\ run' = [run EXCEPT !.closed = TRUE, !.order = order, !.failing = failing,
                             !.closeRet = r.err]
    /\ UNCHANGED <<authVars, unit, sv>>

NextServer ==
    \/ RegisterAuthenticator
    \/ \E name \in ProviderNames, p \in ProviderInstances : Register(name, p)
    \/ \E listenOk, credsOk \in BOOLEAN,
          proxyFailing \in SUBSET {sv.providers[n] : n \in DOMAIN sv.providers} :
          RunServer(listenOk, credsOk, proxyFailing)
    \/ GrpcServeFails
    \/ HttpServeFails
    \/ Signal
    \/ \E trigger \in {"signal", "ctx"} : Select(trigger)
    \/ HttpShutdown
    \/ GracefulStop
    \/ Wait
    \/ Fatal
    \/ StreamCall(WatchMethod)
    \/ \E order \in Orders(DOMAIN sv.providers), failing \in SUBSET ProviderInstances :
          Close(order, failing)

SpecServer == InitServer /\ [][NextServer]_vars

\* the server as createServers wires it: an authenticator and two providers
Wired ==
    [auth |-> TRUE, providers |-> [n \in {"identifier", "auth"} |->
                                      IF n = "identifier" THEN "p1" ELSE "p2"],
     RESTPort |-> 8080]

InitServe ==
    /\ phase = "wiring"
    /\ jwtPrivatekey = RuntimeKey
    /\ authProviders = <<>>
    /\ serviceAccounts = MadeMap({})
    /\ now = StartTime
    /\ advances = 0
    /\ held = NoToken
    /\ call = Idle
    /\ unit = NoUnit
    /\ sv = Wired
    /\ run = NotRunning
    /\ closes = NoCloses

\* what the main goroutine of RunServer and of serveCmd.Run does next
MainSteps ==
    \/ \E trigger \in {"signal", "ctx"} : Select(trigger)
    \/ HttpShutdown
    \/ GracefulStop
    \/ Wait
    \/ Fatal

NextServe ==
    \/ \E listenOk, credsOk \in BOOLEAN : RunServer(listenOk, credsOk, {})
    \/ GrpcServeFails
    \/ HttpListens
    \/ HttpServeFails
    \/ Signal
    \/ MainSteps
    \/ RpcBegins
    \/ RpcCompletes
    \/ \E isGrpcWebRequest \in BOOLEAN : HttpRequest(isGrpcWebRequest)
    \/ StreamCall(WatchMethod)

\* the main goroutine runs on whenever it is not blocked; nothing makes a
\* handler return, a loop fail or a signal arrive
SpecServe == InitServe /\ [][NextServe]_vars /\ WF_vars(MainSteps)

----------------------------------------------------------------------------
(* Properties *)

\* the last call has been answered: rejected by the interceptor or handled
Done == call.pc = "done"
\* the handler of the call is about to run or has run
Invoked == call.pc = "handler" \/ (call.pc = "done" /\ call.handled)
\* the call's metadata carries a token that parseToken accepted at interception
Accepted == call.md.kind = "authorization" /\ parseToken(call.md, call.at).err = NoErr
\* the context of the call carries a CallIdentity of a registered service namespace
CarriesServiceIdentity ==
    call.ucd # NoUcd /\ call.ucd.authenticatedUser.system \in serviceAccounts.keys
\* a Login has been handled for a registered namespace that is no service namespace
DelegatedLoginDone ==
    /\ Done /\ call.handled /\ call.method = LoginMethod
    /\ call.req.user.system \in DOMAIN authProviders
    /\ call.req.user.system \notin serviceAccounts.keys

\* the registrations of the serve command (createServers): the concierge
\* service user as service namespace, the directory's user ids as the other
ServeWiring ==
    /\ DOMAIN authProviders = {ConciergeServiceUser, CymruUserID}
    /\ serviceAccounts.keys = {ConciergeServiceUser}

\* C1: a Login for a registered non-service namespace returns a token if and
\* only if the context carries a CallIdentity of a registered service
\* namespace and the provider returns (true, nil); otherwise it fails
\* Unauthenticated and mints nothing.
C1_TrustChain ==
    DelegatedLoginDone =>
        LET ok == /\ CarriesServiceIdentity
                  /\ Authenticate(authProviders[call.req.user.system], call.req.cred)
                        = ApResult(TRUE, NoErr)
        IN  /\ (call.result.token # NoToken) <=> ok
            /\ ~ok => /\ call.result.status.code = "Unauthenticated"
                      /\ ~call.result.minted

\* the namespace whose lifetime class a minted token gets
MintedFor ==
    IF call.method = LoginMethod THEN call.req.user.system
    ELSE call.ucd.authenticatedUser.system

\* C2: every token minted by Login or Refresh gets 72 hours when its namespace
\* was registered with isServiceAccount = true, whatever the uri, and 5
\* minutes when it was registered with isServiceAccount = false (stated here
\* for the namespaces with a non-empty uri).
C2_LifetimeFollowsFlag ==
    (Done /\ call.handled /\ call.result.minted /\ MintedFor # EmptyURI) =>
        /\ call.result.duration =
              IF MintedFor \in serviceAccounts.keys
              THEN serviceAccountTokenDuration ELSE defaultTokenDuration
        /\ call.result.token.exp = Unix(call.tHandled) + call.result.duration

\* C3: a call to a method off the allow-list whose metadata carries no token
\* that parseToken accepts is rejected Unauthenticated without its handler
\* being invoked; a handler that is invoked has the CallIdentity of the token
\* that was valid at interception.
C3_NoHandlerWithoutToken ==
    (call.pc # "idle" /\ call.method \notin {LoginMethod, CheckMethod}) =>
        /\ ~Accepted => /\ Done /\ ~call.handled
                        /\ call.result.status.code = "Unauthenticated"
        /\ Invoked => /\ Accepted
                      /\ call.ucd # NoUcd
                      /\ call.ucd.token = call.md.jwt
                      /\ call.ucd.token.sig.key = jwtPrivatekey
                      /\ Unix(call.at) <= call.ucd.tokenExpiresAt

\* C3 happens: a call with an expired token was rejected, handler not invoked
C3_Witness ==
    /\ Done /\ ~call.handled /\ call.method = OtherMethod
    /\ call.md.kind = "authorization" /\ call.md.jwt.kind = "jwt"
    /\ call.md.jwt.sig.key = jwtPrivatekey /\ call.md.jwt.alg = "RS256"
    /\ Unix(call.at) > call.md.jwt.exp
    /\ call.result.status.code = "Unauthenticated"

\* C4: a call to login or to the health check is never rejected by the
\* interceptor: without an accepted token its handler runs with no
\* CallIdentity, with one it runs with that CallIdentity; no other method is
\* let through on a failed validation.
C4_AllowList ==
    /\ (call.pc # "idle" /\ call.method \in {LoginMethod, CheckMethod}) =>
          /\ Invoked
          /\ ~Accepted => call.ucd = NoUcd
          /\ Accepted => call.ucd = parseToken(call.md, call.at).ucd
    /\ (call.pc # "idle" /\ call.method \notin {LoginMethod, CheckMethod} /\ ~Accepted) =>
          ~Invoked

\* C4 happens: a health check without Authorization header was handled, with
\* no identity attached, and one with a valid token with its identity
C4_Witness ==
    /\ Done /\ call.handled /\ call.method = CheckMethod
    /\ call.md = NoHeader /\ call.ucd = NoUcd
    /\ call.result.status = OK

\* C5: two rejected calls to methods off the allow-list that differ only in
\* why the token failed get the same response: whatever the reason, the
\* response is the one a call without Authorization header gets, and it does
\* not carry the reason.
C5_CoarseRejection ==
    (Done /\ ~call.handled /\ call.method \notin {LoginMethod, CheckMethod}) =>
        /\ call.result.status = unaryAuthInterceptor(call.method, NoHeader, call.at).status
        /\ \A e \in {ErrInvalidToken, ErrMalformed, ErrExpired, ErrNotYetIssued, ErrSignature} :
              ~Mentions(call.result.status.msg, e)

\* a Refresh has been handled
RefreshDone == Done /\ call.handled /\ call.method = RefreshMethod
\* the token of the context was still valid when Refresh read the clock
StillValid == Unix(call.tHandled) <= call.ucd.tokenExpiresAt
\* what Refresh computes as remaining, in ticks
Remaining == Seconds(call.ucd.tokenExpiresAt) - call.tHandled

\* C6: with strictly more than 5 minutes remaining Refresh returns exactly
\* the token the caller presented, not re-signed, so that any two such calls
\* with the same token return the same token.
C6_RefreshIdempotent ==
    (RefreshDone /\ Remaining > Seconds(300)) =>
        /\ call.result.status = OK
        /\ call.result.token = call.md.jwt
        /\ ~call.result.minted

\* C6 happens: a token sent with the "Bearer " prefix came back unchanged
C6_Witness ==
    /\ RefreshDone /\ Remaining > Seconds(300)
    /\ call.md.bearer
    /\ call.result.token = call.md.jwt

\* C7 as stated: a Refresh with a still valid token that has under 5 minutes
\* remaining mints a token whose expiry is strictly later than that of the
\* presented token (stated here for the registrations of the serve command).
C7_StrictlyLaterExpiry ==
    (ServeWiring /\ RefreshDone /\ StillValid /\ Remaining < Seconds(300)) =>
        /\ call.result.minted
        /\ call.result.token.exp > call.ucd.tokenExpiresAt

\* C7 as amended: the new expiry is never earlier than the presented one; it
\* is strictly later for a 72-hour token, and for a 5-minute token whenever
\* Refresh runs in a later clock second than the one the presented token was
\* issued in.
C7_ExpiryNotEarlier ==
    (RefreshDone /\ StillValid /\ Remaining < Seconds(300)) =>
        /\ call.result.minted
        /\ call.result.token.exp >= call.ucd.tokenExpiresAt
        /\ (\/ call.ucd.authenticatedUser.system = ConciergeServiceUser
            \/ Unix(call.tHandled) > call.ucd.token.iat)
              => call.result.token.exp > call.ucd.tokenExpiresAt

\* C7 happens: a 72-hour token with under 5 minutes left was exchanged for a
\* token that expires later
C7_Witness ==
    /\ RefreshDone /\ StillValid /\ Remaining < Seconds(300)
    /\ call.ucd.authenticatedUser.system = ConciergeServiceUser
    /\ call.result.minted
    /\ call.result.token.exp > call.ucd.tokenExpiresAt

\* a Refresh has been handled with the 5-minute token of a delegated login
DelegatedRefreshDone ==
    /\ RefreshDone
    /\ call.ucd.authenticatedUser.system \notin serviceAccounts.keys
    /\ call.ucd.authenticatedUser.system # ConciergeServiceUser

\* C8 as stated: service namespace and user namespace registered as in the
\* scenario; with the 5-minute token of a delegated login, a Refresh called
\* immediately (within a second of the issue) returns the same token, and a
\* Refresh 4m59s after the issue returns a new token that expires later.
C8_Scenario ==
    (ServeWiring /\ DelegatedRefreshDone /\ StillValid) =>
        /\ Unix(call.tHandled) <= call.ucd.token.iat + 1
              => call.result.token = call.ucd.token
        /\ Unix(call.tHandled) >= call.ucd.token.iat + 299
              => /\ call.result.token # call.ucd.token
                 /\ call.result.token.exp > call.ucd.tokenExpiresAt

\* C8 as amended: every Refresh with the 5-minute token of a delegated login
\* re-signs (the token never has more than 5 minutes left): the new token is
\* for the same subject and expires no earlier; once the clock second of the
\* issue has passed - so also 4m59s later - it is a different token with a
\* strictly later expiry.
C8_DelegatedRefreshResigns ==
    DelegatedRefreshDone =>
        /\ call.result.minted
        /\ call.result.token.sub = call.ucd.token.sub
        /\ call.result.token.exp >= call.ucd.tokenExpiresAt
        /\ Unix(call.tHandled) > call.ucd.token.iat
              => /\ call.result.token # call.ucd.token
                 /\ call.result.token.exp > call.ucd.tokenExpiresAt

\* C8 happens: service login, delegated login, and a Refresh 4m59s after the
\* issue of the delegated token returned a token that expires later
C8_Witness ==
    /\ DelegatedRefreshDone /\ StillValid
    /\ ConciergeServiceUser \in serviceAccounts.keys
    /\ call.ucd.authenticatedUser.system = CymruUserID
    /\ Unix(call.tHandled) = call.ucd.token.iat + 299
    /\ call.result.token.exp > call.ucd.tokenExpiresAt

C10_ProviderErrorHidden ==
    (ServeWiring /\ Done /\ call.handled /\ call.method = LoginMethod
                 /\ call.result.apCalled) =>
        LET res == Authenticate(authProviders[call.req.user.system], call.req.cred) IN
        res.err # NoErr =>
            /\ call.result.status.code = "Unauthenticated"
            /\ ~call.result.minted
            /\ ~Mentions(call.result.status.msg, res.err)

\* a Login for which the AuthProvider of the namespace was called and returned
\* an error (a failed query of the users table, a failed hash comparison)
ProviderFailed ==
    /\ Done /\ call.handled /\ call.method = LoginMethod
    /\ call.result.apCalled
    /\ Authenticate(authProviders[call.req.user.system], call.req.cred).err # NoErr

\* C11: an error raised by the AuthProvider's backend during Login reaches
\* the caller with status Internal, carrying the AuthProvider's message.
C11_BackendErrorInternal ==
    (ServeWiring /\ ProviderFailed
        /\ Authenticate(authProviders[call.req.user.system], call.req.cred).err = ErrDatabase) =>
        /\ call.result.status.code = "Internal"
        /\ Mentions(call.result.status.msg, ErrDatabase)

\* a token was generated and parsed at once (no clock reading later than the
\* second one of generateToken), unaltered, by the process that generated it
UnitFresh ==
    /\ unit.pc = "parsed" /\ ~unit.altered /\ unit.restarts = 0
    /\ unit.tParse = unit.tIat
\* the durations Login and Refresh hand to generateToken
LoginDurations == {Seconds(defaultTokenDuration), Seconds(serviceAccountTokenDuration)}

\* C12: parseToken(generateToken(identity, duration)) succeeds and yields the
\* namespace and value that went in and the expiry issuedAt + duration (stated
\* here for a non-empty namespace and the two durations of Login, both clock
\* readings of generateToken falling on the same tick).
C12_RoundTrip ==
    (/\ UnitFresh /\ unit.id.system # EmptyURI
     /\ unit.duration \in LoginDurations /\ unit.tExp = unit.tIat) =>
        /\ unit.out.err = NoErr
        /\ unit.out.ucd # NoUcd
        /\ unit.out.ucd.authenticatedUser = unit.id
        /\ Seconds(unit.out.ucd.tokenExpiresAt) = Seconds(Unix(unit.tIat)) + unit.duration

\* a subject splits on "|" into exactly two parts, neither of them empty
TwoNonEmptyParts(sub) ==
    LET ids == Split(sub, "|") IN Len(ids) = 2 /\ ids[1] # <<>> /\ ids[2] # <<>>

\* C13: parseToken fails, and returns no CallIdentity, for every token signed
\* with the runtime's key and unexpired whose subject does not split on "|"
\* into exactly two non-empty parts (stated here for the tokens generateToken
\* makes for a non-empty namespace with the durations of Login).
C13_TwoNonEmptyParts ==
    (/\ unit.pc = "parsed" /\ ~unit.altered /\ unit.restarts = 0
     /\ unit.id.system # EmptyURI /\ unit.duration \in LoginDurations
     /\ ParseWithClaims(held, unit.tParse) = NoErr
     /\ ~TwoNonEmptyParts(held.sub)) =>
        /\ unit.out.err # NoErr
        /\ unit.out.ucd = NoUcd

\* C14 as stated: a token minted with any negative duration is rejected by
\* parseToken immediately after minting, and parseToken never accepts a token
\* whose expiresAt is earlier than the current time (stated here for the
\* tokens whose expiresAt is not Unix second 0).
C14_NegativeDurationRejected ==
    (unit.pc = "parsed" /\ ~unit.altered /\ unit.restarts = 0 /\ held.exp # 0) =>
        /\ (unit.duration < 0 /\ unit.tParse = unit.tIat) => unit.out.err # NoErr
        /\ unit.out.err = NoErr => ~(Seconds(held.exp) < unit.tParse)

\* C14: a token minted with a negative duration of one second or more is
\* rejected by parseToken immediately after minting, and parseToken never
\* accepts a token whose expiresAt lies in an earlier clock second than the
\* current time; both but for an expiresAt of Unix second 0, which a token
\* carries as "no expiry".
C14_ExpiredSecondRejected ==
    unit.pc = "parsed" =>
        /\ (UnitFresh /\ unit.duration <= -Seconds(1) /\ held.exp # 0) =>
               /\ unit.out.err # NoErr
               /\ unit.out.ucd = NoUcd
        /\ (unit.out.err = NoErr /\ held.exp # 0) => Unix(unit.tParse) <= held.exp

\* C14 happens: a token minted one second into the past was parsed at once
\* and rejected as expired
C14_Witness ==
    /\ UnitFresh /\ unit.duration = -Seconds(1)
    /\ held.exp # 0 /\ held.exp < Unix(unit.tParse)
    /\ unit.out.err = ErrExpired /\ unit.out.ucd = NoUcd

C16_StreamUnimplemented ==
    (sv.auth /\ run.stream # NoStream) =>
        /\ ~run.stream.invoked
        /\ run.stream.status.code = "Unimplemented"

\* C18: a Register under a name that is already registered aborts the
\* process; it never replaces the Provider that was registered first.
C18_NoSilentReplace ==
    [][\A name \in DOMAIN sv.providers :
          \/ name \in DOMAIN sv'.providers /\ sv'.providers[name] = sv.providers[name]
          \/ run'.pc = "aborted"]_vars

\* the first error of the instances Close would visit in this order, or nil
RECURSIVE FirstErr(_, _)
FirstErr(order, failing) ==
    IF order = <<>> THEN NoErr
    ELSE IF sv.providers[Head(order)] \in failing THEN CloseErr(sv.providers[Head(order)])
    ELSE FirstErr(Tail(order), failing)

\* no Provider instance is registered under two names
RegisteredOnce ==
    \A n, m \in DOMAIN sv.providers : sv.providers[n] = sv.providers[m] => n = m

\* C19: Close calls Close on every registered Provider exactly once, also
\* when some of them fail, and returns the first error encountered, nil if
\* none failed (stated here for providers registered under one name each).
C19_CloseAll ==
    (run.closed /\ RegisteredOnce) =>
        /\ \A n \in DOMAIN sv.providers : closes[sv.providers[n]] = 1
        /\ run.closeRet = FirstErr(run.order, run.failing)

\* C20: RunServer returns nil after a shutdown that a signal triggered with
\* neither loop having failed, and the first error of a loop when a failed
\* loop triggered the shutdown.
C20_RunReturn ==
    (run.pc = "returned" /\ run.trigger # "none") =>
        /\ (run.trigger = "signal" /\ run.failure = NoErr) => run.ret = NoErr
        /\ run.trigger = "ctx" => (run.failure # NoErr /\ run.ret = run.failure)

\* C17: a RegisterAuthProvider for a namespace that already has a provider
\* panics before it modifies anything: the provider and the service-account
\* flag of the first registration stay, and the process, aborted, never comes
\* to serve.
C17_DuplicateAborts ==
    [][/\ \A uri \in Namespaces, service \in BOOLEAN :
             (/\ uri \in DOMAIN authProviders
              /\ RegisterAuthProvider(uri, ProviderFor(service), service)) =>
                 /\ phase' = "aborted"
                 /\ authProviders' = authProviders
                 /\ serviceAccounts' = serviceAccounts
       /\ phase = "aborted" => UNCHANGED authVars]_vars

\* C17 happens: a registry with made maps and a registration in it was
\* aborted, which only a second registration for a namespace does
C17_Witness ==
    /\ phase = "aborted" /\ ~serviceAccounts.isNil
    /\ authProviders # <<>>
    /\ \A uri \in DOMAIN authProviders :
          authProviders[uri] = ProviderFor(uri \in serviceAccounts.keys)

\* RunServer got past the listener and the TLS files
Started == run.pc # "wiring" /\ run.ret \notin {ErrListen, ErrCreds}
\* RunServer has returned (and serveCmd.Run may have ended the process)
Returned == run.pc \in {"returned", "exited"}

\* C21: whichever of a failing loop and a signal comes first, both loops
\* then stop and RunServer returns, also when a call in flight never
\* completes.
C21_BoundedShutdown ==
    (run.pc = "serving" /\ (run.signalled \/ run.gerr # NoErr))
        ~> (Returned /\ run.grpc = "returned" /\ run.http = "returned")

\* C22: a failed RegisterHTTPProxy of one Provider is logged and skipped:
\* RegisterHTTPProxy is attempted for every registered Provider, both loops
\* are started, and what RunServer returns is nil or an error of a loop.
C22_ProxyFailureSkipped ==
    Started =>
        /\ run.proxyTried = DOMAIN sv.providers
        /\ run.proxyFailed \subseteq run.proxyTried
        /\ run.grpc # "idle" /\ run.http # "idle"
        /\ run.ret \in {NoErr, ErrGrpcServe, ErrHttpServe, ErrHttpListen, ErrServerClosed}

\* C22 happens: of two providers the gateway of one failed to register, that
\* of the other did not, and both loops run
C22_Witness ==
    /\ run.pc = "serving" /\ run.grpc = "running" /\ run.http = "running"
    /\ run.proxyFailed # {} /\ run.proxyFailed # run.proxyTried
    /\ run.proxyTried = DOMAIN sv.providers

\* C23: when the RPC port or the port of the gateway cannot be bound, or the
\* TLS files cannot be loaded, RunServer fails without either loop having
\* accepted a call.
C23_StartupErrorsBeforeTraffic ==
    (Returned /\ run.ret \in {ErrListen, ErrCreds, ErrHttpListen}) =>
        /\ ~run.accepted
        /\ run.request = NoRequest

\* C24: with RESTPort = 0 RunServer starts no HTTP loop; only the RPC loop
\* runs.
C24_GatewayOff ==
    (Started /\ sv.RESTPort = 0) => (run.http = "idle" /\ run.grpc # "idle")

\* C29: in the serve command, after RunServer ended because of a shutdown a
\* signal triggered, Server.Close is reached before the process exits.
C29_CloseAfterSignal ==
    (run.pc = "exited" /\ run.trigger = "signal") =>
        /\ run.closed
        /\ \A n \in DOMAIN sv.providers : closes[sv.providers[n]] >= 1

\* C30: an HTTP request on the REST port is served by exactly one handler:
\* the gRPC-Web wrapper for a gRPC-Web request, the gateway mux otherwise.
C30_OneHandler ==
    run.request # NoRequest =>
        run.request.handlers = IF run.request.grpcWeb THEN <<"wrappedGrpc">> ELSE <<"mux">>

\* C27: with either constructor, RegisterAuthProvider with service = true for
\* a namespace not yet registered completes and leaves the namespace in the
\* provider registry and in the service-account set.
C27_ServiceRegistration ==
    \A uri \in DOMAIN authProviders \ {EmptyURI} :
        authProviders[uri] = ProviderFor(TRUE) =>
            uri \in serviceAccounts.keys

\* C28: Refresh called with a context that carries no CallIdentity returns
\* an error status and mints no token; the handler does not crash.
C28_RefreshWithoutIdentity ==
    (unit.pc = "refreshed" /\ unit.out.ucd = NoUcd) =>
        /\ unit.refresh.status.code \notin {"OK", "panic"}
        /\ ~unit.refresh.minted
        /\ unit.refresh.token = NoToken

\* what the handler of the call returns when it is computed from the call's
\* own inputs and clock readings against the registry, the service-account
\* set and the key of the state it is evaluated in
OutcomeAlone == Handler(call.method, call.ucd, call.req, call.tHandled, now)
\* what the interceptor decides for the call's own metadata at its own time
InterceptAlone == unaryAuthInterceptor(call.method, call.md, call.at)

SubjectSystem(tok) == Split(tok.sub, "|")[1]
\* the token was issued by the token authority of this process
Issued(tok) ==
    /\ tok.kind = "jwt" /\ tok.alg \in RSAMethods
    /\ tok.sig = Sign(jwtPrivatekey, tok.alg, tok.sub, tok.iat, tok.exp)

====
